---- MODULE Spec2Model ----
(***************************************************************************)
(* A model of the repository miner: BaseMiner (repominer/mining/base.py)   *)
(* and its subclass PythonMiner (python_utils/python_miner.py).            *)
(*                                                                         *)
(* The git repository is an input: a sequence of commits, oldest first,    *)
(* each with its message and its modified files.  The miner keeps          *)
(* commit_hashes, fixing_commits and fixed_files; its operations are       *)
(* get_fixing_commits, get_fixed_files and label, and the caller may       *)
(* assign fixing_commits directly.                                         *)
(***************************************************************************)
EXTENDS Integers, Sequences, FiniteSets, TLC

(***************************************************************************)
(* Bounds of the model.                                                    *)
(***************************************************************************)
\* commits of the two-path histories of the resolution specification
NumCommits == 5
\* commits of the three-path histories of the resolution specification
ChainCommits == 4
\* commits of the history explored by the selection specification
SelectCommits == 3
\* modified files per commit in the selection specification
MaxFiles == 2
\* length of a fixing-commit list assigned by the caller (selection specification)
MaxKnown == 2
\* fixing commits the caller assigns in the resolution specification
MaxFixing == 3
\* hashes in one answer of the blame collaborator
MaxBlame == 2

(***************************************************************************)
(* Values.                                                                 *)
(***************************************************************************)
\* pydriller gives None as old_path of an added and new_path of a deleted file
None == <<>>

\* a path is the sequence of its name and its extension
PathA == <<"a", ".py">>
PathB == <<"b", ".py">>
PathC == <<"c", ".txt">>
AllPaths == {PathA, PathB, PathC}
PyPaths == {PathA, PathB}
FewPaths == {PathA, PathC}

ADD == "ADD"
MODIFY == "MODIFY"
DELETE == "DELETE"
RENAME == "RENAME"

BaseMinerKind == "BaseMiner"
PythonMinerKind == "PythonMiner"

\* the hash of the commit at position i of the branch; hashes do not grow
\* with the position, so an order on hashes is not the chronological order
HashAt(i) == 100 - i
\* a hash that no commit of the branch has
ForeignHash == HashAt(0)

\* a sentence of a commit message, as the rules see it: does it match the
\* defect pattern, and which topic patterns does its dependency phrase match
Sentence(d, t) == [defect |-> d, topics |-> t]
PlainMsg == <<Sentence(FALSE, {"SYNTAX"})>>
FixMsg == <<Sentence(FALSE, {}), Sentence(TRUE, {"SYNTAX"})>>

\* membership in a Python list
InSeq(x, s) == \E i \in 1..Len(s) : s[i] = x

\* list.index(x): the first position of x
IndexOf(s, x) == CHOOSE i \in 1..Len(s) : s[i] = x /\ \A j \in 1..(i - 1) : s[j] # x

\* list.remove(x): drop the first occurrence of x
RemoveFirst(s, x) ==
    IF InSeq(x, s)
    THEN LET k == IndexOf(s, x)
         IN [i \in 1..(Len(s) - 1) |-> IF i < k THEN s[i] ELSE s[i + 1]]
    ELSE s

\* str.endswith('.py')
EndsWithPy(path) == Len(path) > 0 /\ path[Len(path)] = ".py"

(***************************************************************************)
(* Histories: every commit changes files that exist (or adds ones that do  *)
(* not), starting from the empty tree.                                     *)
(***************************************************************************)
ModifiedFile(t, old, new, c) ==
    [change_type |-> t, old_path |-> old, new_path |-> new, comment |-> c]

\* the changes a commit can make to one file of the tree `files`
FileChanges(paths, files, comments) ==
    {ModifiedFile(ADD, None, p, FALSE) : p \in paths \ files}
    \cup {ModifiedFile(MODIFY, p, p, c) : p \in files, c \in comments}
    \cup {ModifiedFile(DELETE, p, None, FALSE) : p \in files}
    \cup {ModifiedFile(RENAME, p, q, FALSE) : p \in files, q \in paths \ files}

Touched(mf) == {mf.old_path, mf.new_path} \ {None}

TreeAfter(files, mf) ==
    CASE mf.change_type = ADD -> files \cup {mf.new_path}
      [] mf.change_type = DELETE -> files \ {mf.old_path}
      [] mf.change_type = RENAME -> (files \ {mf.old_path}) \cup {mf.new_path}
      [] OTHER -> files

RECURSIVE TreeAfterAll(_, _)
TreeAfterAll(files, mfs) ==
    IF mfs = <<>> THEN files
    ELSE TreeAfterAll(TreeAfter(files, Head(mfs)), Tail(mfs))

\* the lists of 1..k changes of one commit, no path touched twice
RECURSIVE ChangeSets(_, _, _, _, _)
ChangeSets(paths, files, comments, used, k) ==
    IF k = 0 THEN {}
    ELSE LET firsts == {mf \in FileChanges(paths, files, comments) :
                            Touched(mf) \cap used = {}}
         IN {<<mf>> : mf \in firsts}
            \cup UNION {{<<mf>> \o rest :
                            rest \in ChangeSets(paths, TreeAfter(files, mf), comments,
                                                used \cup Touched(mf), k - 1)} :
                        mf \in firsts}

RECURSIVE Histories(_, _, _, _, _)
Histories(paths, files, comments, k, n) ==
    IF n = 0 THEN {<<>>}
    ELSE UNION {{<<cs>> \o rest :
                    rest \in Histories(paths, TreeAfterAll(files, cs), comments, k, n - 1)} :
                cs \in ChangeSets(paths, files, comments, {}, k)}

Commit(h, m, mfs) == [hash |-> h, msg |-> m, modified_files |-> mfs]

Repositories(paths, comments, k, n, msgs) ==
    {[i \in 1..n |-> Commit(HashAt(i), m[i], h[i])] :
        h \in Histories(paths, {}, comments, k, n), m \in [1..n -> msgs]}

VARIABLES
    miner,           \* the class of the miner object
    repo,            \* the branch: its commits, oldest first
    commit_hashes,   \* BaseMiner.commit_hashes
    fixing_commits,  \* BaseMiner.fixing_commits
    fixed_files,     \* BaseMiner.fixed_files
    blame,           \* the answers the blame collaborator has given so far
    returned,        \* the value the last call returned
    classified,      \* the commits the last get_fixing_commits classified
    blame_calls,     \* the blame queries of the last get_fixed_files
    raised,          \* the exception the last call raised, or "None"
    last_call,       \* the last operation
    steps            \* what the loops of the last get_fixed_files or label did

vars == <<miner, repo, commit_hashes, fixing_commits, fixed_files, blame,
          returned, classified, blame_calls, raised, last_call, steps>>

\* commit_hashes.index(sha): the chronological position of a commit
Position(sha) == IndexOf(commit_hashes, sha)

\* the hashes of the branch
BranchCommits == {commit_hashes[n] : n \in 1..Len(commit_hashes)}

\* sort_commits leaving the list as it was
sort_commits_unchanged(commits) == commits

\* the list sort_commits leaves in `commits`: the hashes of the branch that
\* occur in it, in branch order
sort_commits(commits) == SelectSeq(commit_hashes, LAMBDA sha : InSeq(sha, commits))

Reverse(s) == [i \in 1..Len(s) |-> s[Len(s) + 1 - i]]

\* Repository(from_commit, to_commit).traverse_commits(): the commits between
\* the two, both included, oldest first
CommitRange(h1, h2) ==
    LET i == Position(h1)
        j == Position(h2)
    IN SubSeq(repo, IF i < j THEN i ELSE j, IF i < j THEN j ELSE i)

(***************************************************************************)
(* FixingCommitClassifier                                                  *)
(***************************************************************************)
is_comment_changed(commit) ==
    \E i \in 1..Len(commit.modified_files) :
        /\ commit.modified_files[i].change_type = MODIFY
        /\ commit.modified_files[i].comment

is_data_changed(commit) == FALSE

is_include_changed(commit) == FALSE

is_service_changed(commit) == FALSE

\* a sentence with the defect pattern and the topic pattern
DefectOn(commit, topic) ==
    \E i \in 1..Len(commit.msg) : commit.msg[i].defect /\ topic \in commit.msg[i].topics

\* a sentence with the defect pattern
HasDefect(commit) == \E i \in 1..Len(commit.msg) : commit.msg[i].defect

fixes_conditional(commit) == DefectOn(commit, "CONDITIONAL")

fixes_configuration_data(commit) ==
    DefectOn(commit, "CONFIGURATION_DATA") \/ (HasDefect(commit) /\ is_data_changed(commit))

fixes_dependency(commit) ==
    DefectOn(commit, "DEPENDENCY") \/ (HasDefect(commit) /\ is_include_changed(commit))

fixes_documentation_by_hook(commit) ==
    DefectOn(commit, "DOCUMENTATION") \/ is_comment_changed(commit)

fixes_documentation(commit) ==
    DefectOn(commit, "DOCUMENTATION") \/ (HasDefect(commit) /\ is_comment_changed(commit))

fixes_idempotency(commit) == DefectOn(commit, "IDEMPOTENCY")

fixes_security(commit) == DefectOn(commit, "SECURITY")

fixes_service(commit) ==
    DefectOn(commit, "SERVICE") \/ (HasDefect(commit) /\ is_service_changed(commit))

fixes_syntax(commit) == DefectOn(commit, "SYNTAX")

LabelOrder ==
    <<"CONDITIONAL", "CONFIGURATION_DATA", "DEPENDENCY", "DOCUMENTATION",
      "IDEMPOTENCY", "SECURITY", "SERVICE", "SYNTAX">>

Fixes(commit, label) ==
    CASE label = "CONDITIONAL" -> fixes_conditional(commit)
      [] label = "CONFIGURATION_DATA" -> fixes_configuration_data(commit)
      [] label = "DEPENDENCY" -> fixes_dependency(commit)
      [] label = "DOCUMENTATION" -> fixes_documentation(commit)
      [] label = "IDEMPOTENCY" -> fixes_idempotency(commit)
      [] label = "SECURITY" -> fixes_security(commit)
      [] label = "SERVICE" -> fixes_service(commit)
      [] OTHER -> fixes_syntax(commit)

\* the list get_fixing_commits builds for one commit
LabelsOf(commit) == SelectSeq(LabelOrder, LAMBDA l : Fixes(commit, l))

(***************************************************************************)
(* The relevance filter                                                    *)
(***************************************************************************)
BaseIgnoreFile(path, content) == FALSE

PythonIgnoreFileNever(path, content) == FALSE

PythonIgnoreFile(path, content) == ~EndsWithPy(path)

\* self.ignore_file, by the class of the miner
ignore_file(path, content) ==
    IF miner = PythonMinerKind THEN PythonIgnoreFile(path, content)
    ELSE BaseIgnoreFile(path, content)

\* the while loop without the test of the change type
RECURSIVE BaseScanAnyType(_, _)
BaseScanAnyType(mfs, i) ==
    IF i <= Len(mfs)
    THEN IF ignore_file(mfs[i].new_path, None) THEN BaseScanAnyType(mfs, i + 1)
         ELSE i
    ELSE i

\* the while loop of BaseMiner.discard_undesired_fixing_commits over one
\* commit's files (i counts from 1): the index it stops at
RECURSIVE BaseScan(_, _)
BaseScan(mfs, i) ==
    IF i <= Len(mfs)
    THEN IF mfs[i].change_type # MODIFY THEN BaseScan(mfs, i + 1)
         ELSE IF ignore_file(mfs[i].new_path, None) THEN BaseScan(mfs, i + 1)
         ELSE i
    ELSE i

RECURSIVE BaseDiscardLoop(_, _, _)
BaseDiscardLoop(cs, k, commits) ==
    IF k > Len(cs) THEN commits
    ELSE LET commit == cs[k]
             i == BaseScan(commit.modified_files, 1)
         IN BaseDiscardLoop(cs, k + 1,
                IF i = Len(commit.modified_files) + 1 /\ InSeq(commit.hash, commits)
                THEN RemoveFirst(commits, commit.hash)
                ELSE commits)

\* BaseMiner.discard_undesired_fixing_commits: the list it leaves in `commits`
BaseDiscardSeveral(commits) ==
    IF Len(commits) <= 1 THEN commits
    ELSE LET sorted == sort_commits(commits)
         IN BaseDiscardLoop(CommitRange(sorted[1], sorted[Len(sorted)]), 1, sorted)

BaseDiscard(commits) ==
    IF commits = <<>> THEN commits
    ELSE LET sorted == sort_commits(commits)
         IN BaseDiscardLoop(CommitRange(sorted[1], sorted[Len(sorted)]), 1, sorted)

\* the while loop of PythonMiner.discard_undesired_fixing_commits
RECURSIVE PythonScan(_, _)
PythonScan(mfs, i) ==
    IF i <= Len(mfs) /\ mfs[i].change_type = MODIFY /\ EndsWithPy(mfs[i].new_path)
    THEN PythonScan(mfs, i + 1)
    ELSE i

RECURSIVE PythonDiscardLoop(_, _, _)
PythonDiscardLoop(cs, k, commits) ==
    IF k > Len(cs) THEN commits
    ELSE LET commit == cs[k]
             i == PythonScan(commit.modified_files, 1)
         IN PythonDiscardLoop(cs, k + 1,
                IF i >= Len(commit.modified_files) + 1
                THEN RemoveFirst(commits, commit.hash)
                ELSE commits)

\* PythonMiner.discard_undesired_fixing_commits (called with a non-empty list)
PythonDiscard(commits) ==
    LET sorted == sort_commits(commits)
    IN PythonDiscardLoop(CommitRange(sorted[1], sorted[Len(sorted)]), 1, sorted)

\* self.discard_undesired_fixing_commits, by the class of the miner
discard_undesired_fixing_commits(commits) ==
    IF miner = PythonMinerKind THEN PythonDiscard(commits) ELSE BaseDiscard(commits)

(***************************************************************************)
(* get_fixing_commits                                                      *)
(***************************************************************************)
\* the loop without the skip of the commits already in fixing_commits
RECURSIVE ClassifyLoopNoSkip(_, _)
ClassifyLoopNoSkip(k, st) ==
    IF k > Len(repo) THEN st
    ELSE LET commit == repo[k]
             labels == LabelsOf(commit)
         IN ClassifyLoopNoSkip(k + 1,
              [commits_labels |->
                   IF labels # <<>>
                   THEN [h \in DOMAIN st.commits_labels \cup {commit.hash} |->
                             IF h = commit.hash THEN labels
                             ELSE st.commits_labels[h]]
                   ELSE st.commits_labels,
               commits |->
                   IF labels # <<>> THEN Append(st.commits, commit.hash)
                   ELSE st.commits,
               classified |-> st.classified \cup {commit.hash}])

\* the loop over the branch: the labels found, the candidates in branch
\* order, and the commits a classifier was built for
RECURSIVE ClassifyLoop(_, _)
ClassifyLoop(k, st) ==
    IF k > Len(repo) THEN st
    ELSE LET commit == repo[k]
         IN IF InSeq(commit.hash, fixing_commits) THEN ClassifyLoop(k + 1, st)
            ELSE LET labels == LabelsOf(commit)
                 IN ClassifyLoop(k + 1,
                      [commits_labels |->
                           IF labels # <<>>
                           THEN [h \in DOMAIN st.commits_labels \cup {commit.hash} |->
                                     IF h = commit.hash THEN labels
                                     ELSE st.commits_labels[h]]
                           ELSE st.commits_labels,
                       commits |->
                           IF labels # <<>> THEN Append(st.commits, commit.hash)
                           ELSE st.commits,
                       classified |-> st.classified \cup {commit.hash}])

NoLabels == [h \in {} |-> <<>>]

\* the result of the loop of get_fixing_commits in the current state
Scan == ClassifyLoop(1, [commits_labels |-> NoLabels, commits |-> <<>>, classified |-> {}])

GetFixingCommits ==
    LET scan == Scan
        found == scan.commits # <<>>
        commits == IF found THEN discard_undesired_fixing_commits(scan.commits) ELSE <<>>
    IN /\ fixing_commits' =
              IF found THEN sort_commits(fixing_commits \o commits) ELSE fixing_commits
       /\ returned' =
              IF found
              THEN [h \in {g \in DOMAIN scan.commits_labels : InSeq(g, commits)} |->
                        scan.commits_labels[h]]
              ELSE scan.commits_labels
       /\ classified' = scan.classified
       /\ raised' = "None"
       /\ last_call' = "get_fixing_commits"
       /\ steps' = <<>>
       /\ UNCHANGED <<miner, repo, commit_hashes, fixed_files, blame, blame_calls>>

(***************************************************************************)
(* The caller assigns fixing_commits of a miner that has mined nothing yet *)
(* (miner.fixing_commits = [...], the constructor's docstring).            *)
(***************************************************************************)
AssignFixingCommits(known) ==
    /\ last_call = "__init__"
    /\ fixing_commits' = known
    /\ last_call' = "assign"
    /\ UNCHANGED <<miner, repo, commit_hashes, fixed_files, blame, returned,
                   classified, blame_calls, raised, steps>>

\* the lists of at most n elements of S
RECURSIVE ListsUpTo(_, _)
ListsUpTo(S, n) ==
    IF n = 0 THEN {<<>>}
    ELSE LET shorter == ListsUpTo(S, n - 1)
         IN shorter \cup {Append(l, x) : l \in {m \in shorter : Len(m) = n - 1}, x \in S}

\* the state the constructor leaves
Constructed(kinds, repos) ==
    /\ miner \in kinds
    /\ repo \in repos
    /\ commit_hashes = [i \in 1..Len(repo) |-> repo[i].hash]
    /\ fixing_commits = <<>>
    /\ fixed_files = <<>>
    /\ blame = <<>>
    /\ returned = <<>>
    /\ classified = {}
    /\ blame_calls = {}
    /\ raised = "None"
    /\ last_call = "__init__"
    /\ steps = <<>>

(***************************************************************************)
(* The selection specification: a miner of either class on a short history *)
(* whose commits change up to MaxFiles files, seeded by the caller with    *)
(* any short list of hashes, selects fixing commits any number of times.   *)
(***************************************************************************)
InitSelect ==
    Constructed({BaseMinerKind, PythonMinerKind},
                Repositories(FewPaths, {FALSE}, MaxFiles, SelectCommits,
                             {PlainMsg, FixMsg}))

AssignAnyList ==
    \E known \in ListsUpTo({commit_hashes[i] : i \in 1..Len(commit_hashes)}
                           \cup {ForeignHash}, MaxKnown) :
        AssignFixingCommits(known)

NextSelect == AssignAnyList \/ GetFixingCommits

SpecSelect == InitSelect /\ [][NextSelect]_vars

(***************************************************************************)
(* get_fixed_files                                                         *)
(***************************************************************************)
\* the constructor with bic and fic taken for each other
FixedFileSwapped(filepath, bic, fic) == [filepath |-> filepath, bic |-> fic, fic |-> bic]

FixedFile(filepath, bic, fic) == [filepath |-> filepath, bic |-> bic, fic |-> fic]

\* FixedFile.__eq__: a fixed file is identified by its path
FixedFileEq(f, g) == f.filepath = g.filepath

\* dict.get(key, key)
GetOr(d, key) == IF key \in DOMAIN d THEN d[key] ELSE key

\* d[key] = value
Put(d, key, value) == [k \in DOMAIN d \cup {key} |-> IF k = key THEN value ELSE d[k]]

\* del d[key]
Del(d, key) == [k \in DOMAIN d \ {key} |-> d[k]]

NoRenames == [k \in {} |-> None]

\* list(a set), in some order
RECURSIVE ListOf(_)
ListOf(S) == IF S = {} THEN <<>> ELSE LET x == CHOOSE y \in S : TRUE
                                      IN <<x>> \o ListOf(S \ {x})

\* the commits of the branch before position q that changed the lines of the
\* file called `name` after commit q: what blame can answer
RECURSIVE Touchers(_, _)
Touchers(q, name) ==
    IF q = 0 THEN {}
    ELSE LET mfs == repo[q].modified_files
             hits == {i \in 1..Len(mfs) :
                         /\ mfs[i].change_type \in {ADD, MODIFY, RENAME}
                         /\ mfs[i].new_path = name}
         IN IF hits = {} THEN Touchers(q - 1, name)
            ELSE LET mf == mfs[CHOOSE i \in hits : TRUE]
                 IN {repo[q].hash}
                    \cup (IF mf.change_type = ADD THEN {}
                          ELSE Touchers(q - 1, mf.old_path))

\* the answers Git.get_commits_last_modified_lines can give for file j of the
\* commit at position p: at most MaxBlame commits that touched the file
\* before, or hashes of `foreign`
BlameAnswers(p, j, foreign) ==
    {S \in SUBSET (Touchers(p - 1, repo[p].modified_files[j].old_path) \cup foreign) :
        Cardinality(S) <= MaxBlame}

\* the queries get_fixed_files can make: the modified or renamed files of
\* the fixing commits of the branch
BlameKeys ==
    {<<repo[p].hash, j>> : p \in 1..Len(repo), j \in 1..MaxFiles} \cap
    {k \in {repo[p].hash : p \in 1..Len(repo)} \X (1..MaxFiles) :
        /\ InSeq(k[1], fixing_commits)
        /\ k[2] <= Len(repo[Position(k[1])].modified_files)
        /\ repo[Position(k[1])].modified_files[k[2]].change_type \in {MODIFY, RENAME}}

\* the blame collaborators: one answer for every query, the answers given
\* before unchanged
RECURSIVE Oracles(_, _)
Oracles(keys, foreign) ==
    IF keys = {} THEN {blame}
    ELSE LET k == CHOOSE x \in keys : TRUE
             answers == IF k \in DOMAIN blame THEN {blame[k]}
                        ELSE BlameAnswers(Position(k[1]), k[2], foreign)
         IN {Put(B, k, a) : B \in Oracles(keys \ {k}, foreign), a \in answers}

\* the rule with the first branch left out: a candidate is never kept apart
MergeRuleNoSplit(current_fix, existing_fix) ==
    IF Position(current_fix.bic) < Position(existing_fix.bic) THEN "update"
    ELSE "ignore"

\* the rule with the second comparison turned round
MergeRuleNewerBic(current_fix, existing_fix) ==
    IF Position(current_fix.fic) < Position(existing_fix.bic) THEN "new"
    ELSE IF Position(current_fix.bic) > Position(existing_fix.bic) THEN "update"
    ELSE "ignore"

\* the rule keeping apart every candidate it has no use for
MergeRuleNeverIgnores(current_fix, existing_fix) ==
    IF Position(current_fix.fic) < Position(existing_fix.bic) THEN "new"
    ELSE IF Position(current_fix.bic) < Position(existing_fix.bic) THEN "update"
    ELSE "new"

\* what get_fixed_files does with a candidate whose filepath has an entry:
\* keep it as a new FixedFile, move the entry's bic, or ignore it
MergeRule(current_fix, existing_fix) ==
    IF Position(current_fix.fic) < Position(existing_fix.bic) THEN "new"
    ELSE IF Position(current_fix.bic) < Position(existing_fix.bic) THEN "update"
    ELSE "ignore"

\* the blamed hashes as a list put in history order
BlamedOldestFirst(hashes) == sort_commits(ListOf(hashes))

TrackRenameUnchained(renamed_files, mf) ==
    Put(renamed_files, mf.old_path, mf.new_path)

\* a rename met on the way down: the old path is known as whatever the new
\* path is known as
TrackRename(renamed_files, mf) ==
    Put(renamed_files, mf.old_path, GetOr(renamed_files, mf.new_path))

\* the body of the loop over the modified files of one commit; it adds to
\* st.steps what it did with the file: the branch taken, the candidate, the
\* entry it was compared with, and the rename map before the merge rule
FixOneFile(commit, j, st, B) ==
    LET mf == commit.modified_files[j]
        renamed_files ==
            IF mf.change_type = RENAME
            THEN TrackRename(st.renamed_files, mf)
            ELSE st.renamed_files
        tracked == [st EXCEPT !.renamed_files = renamed_files]
        asked == [tracked EXCEPT !.blame_calls = @ \cup {<<commit.hash, j>>}]
        bug_inducing_commits == BlamedOldestFirst(B[<<commit.hash, j>>])
        bic == bug_inducing_commits[1]
        current_fix == FixedFile(GetOr(renamed_files, mf.new_path), bic, commit.hash)
        present == \E i \in 1..Len(st.fixed_files) : FixedFileEq(st.fixed_files[i], current_fix)
        idx == CHOOSE i \in 1..Len(st.fixed_files) :
                   /\ FixedFileEq(st.fixed_files[i], current_fix)
                   /\ \A k \in 1..(i - 1) : ~FixedFileEq(st.fixed_files[k], current_fix)
        existing_fix == st.fixed_files[idx]
        kind ==
            IF mf.change_type \notin {MODIFY, RENAME} THEN "skip"
            ELSE IF ~InSeq(commit.hash, fixing_commits) THEN "track"
            ELSE IF ignore_file(mf.new_path, None) THEN "ignored"
            ELSE IF B[<<commit.hash, j>>] = {} THEN "unblamed"
            ELSE IF bug_inducing_commits = <<>> THEN "error"
            ELSE IF ~present THEN "create"
            ELSE MergeRule(current_fix, existing_fix)
        after ==
            CASE kind = "skip" -> st
              [] kind \in {"track", "ignored"} -> tracked
              [] kind = "unblamed" -> asked
              [] kind = "error" -> [asked EXCEPT !.raised = "IndexError"]
              [] kind = "create" -> [asked EXCEPT !.fixed_files = Append(@, current_fix)]
              [] kind = "new" ->
                    [asked EXCEPT
                        !.renamed_files = IF mf.new_path \in DOMAIN @ THEN Del(@, mf.new_path)
                                          ELSE @,
                        !.fixed_files = Append(@, FixedFile(mf.new_path, bic, commit.hash))]
              [] kind = "update" -> [asked EXCEPT !.fixed_files[idx].bic = current_fix.bic]
              [] OTHER -> asked
        compared == kind \in {"new", "update", "ignore"}
        step == [commit |-> commit.hash,
                 file |-> j,
                 kind |-> kind,
                 candidate |-> IF kind \in {"create", "new", "update", "ignore"}
                               THEN current_fix ELSE None,
                 idx |-> IF compared THEN idx ELSE 0,
                 tracked |-> renamed_files,
                 renamed_files |-> after.renamed_files,
                 fixed_files |-> after.fixed_files]
    IN IF st.raised # "None" THEN st
       ELSE [after EXCEPT !.steps = Append(st.steps, step)]

RECURSIVE FixFiles(_, _, _, _)
FixFiles(commit, j, st, B) ==
    IF j > Len(commit.modified_files) THEN st
    ELSE FixFiles(commit, j + 1, FixOneFile(commit, j, st, B), B)

\* the loop over the traversed commits
RECURSIVE FixCommits(_, _, _, _)
FixCommits(cs, k, st, B) ==
    IF k > Len(cs) THEN st
    ELSE FixCommits(cs, k + 1, FixFiles(cs[k], 1, st, B), B)

\* the commits get_fixed_files traverses, newest first
FixTraversal(sorted) ==
    IF Len(sorted) = 1 THEN CommitRange(sorted[1], sorted[1])
    ELSE Reverse(CommitRange(sorted[Len(sorted)], sorted[1]))

PassOverPrevious ==
    [fixed_files |-> fixed_files, renamed_files |-> NoRenames,
     blame_calls |-> {}, raised |-> "None", steps |-> <<>>]

\* what a pass starts from: fixed_files = list(), renamed_files = dict()
FreshPass ==
    [fixed_files |-> <<>>, renamed_files |-> NoRenames,
     blame_calls |-> {}, raised |-> "None", steps |-> <<>>]

GetFixedFiles(foreign) ==
    LET sorted == sort_commits(fixing_commits)
        start == FreshPass
    IN IF fixing_commits = <<>>
       THEN /\ last_call' = "get_fixed_files"
            /\ blame_calls' = {}
            /\ raised' = "None"
            /\ returned' = <<>>
            /\ steps' = <<>>
            /\ UNCHANGED <<miner, repo, commit_hashes, fixing_commits, fixed_files,
                           blame, classified>>
       ELSE IF sorted = <<>>
       THEN /\ last_call' = "get_fixed_files"
            /\ fixing_commits' = sorted
            /\ fixed_files' = <<>>
            /\ blame_calls' = {}
            /\ raised' = "IndexError"
            /\ returned' = <<>>
            /\ steps' = <<>>
            /\ UNCHANGED <<miner, repo, commit_hashes, blame, classified>>
       ELSE \E B \in Oracles(BlameKeys, foreign) :
                LET st == FixCommits(FixTraversal(sorted), 1, start, B)
                IN /\ last_call' = "get_fixed_files"
                   /\ fixing_commits' = sorted
                   /\ fixed_files' = st.fixed_files
                   /\ blame_calls' = st.blame_calls
                   /\ blame' = [k \in DOMAIN blame \cup st.blame_calls |-> B[k]]
                   /\ raised' = st.raised
                   /\ returned' = <<>>
                   /\ steps' = st.steps
                   /\ UNCHANGED <<miner, repo, commit_hashes, classified>>

(***************************************************************************)
(* label                                                                   *)
(***************************************************************************)
FailureProneFile(filepath, commit, fixing_commit) ==
    [filepath |-> filepath, commit |-> commit, fixing_commit |-> fixing_commit]

InWindowWithFic(idx_bic, idx_commit, idx_fic) ==
    idx_fic >= idx_commit /\ idx_commit >= idx_bic

\* the test that a commit lies between a file's bic and its fic
InWindow(idx_bic, idx_commit, idx_fic) ==
    idx_fic > idx_commit /\ idx_commit >= idx_bic

\* the loop over fixed_files for one commit: the records it yields
RECURSIVE LabelFiles(_, _, _, _)
LabelFiles(commit, k, renamed_files, out) ==
    IF k > Len(fixed_files) THEN out
    ELSE LET file == fixed_files[k]
             idx_fic == Position(file.fic)
             idx_bic == Position(file.bic)
             idx_commit == Position(commit.hash)
         IN LabelFiles(commit, k + 1, renamed_files,
                IF InWindow(idx_bic, idx_commit, idx_fic)
                THEN Append(out, FailureProneFile(GetOr(renamed_files, file.filepath),
                                                  commit.hash, file.fic))
                ELSE out)

\* the loop over one commit's modified files that records the renames
RECURSIVE LabelRenames(_, _, _)
LabelRenames(mfs, j, renamed_files) ==
    IF j > Len(mfs) THEN renamed_files
    ELSE LabelRenames(mfs, j + 1,
             IF mfs[j].change_type = RENAME
             THEN Put(renamed_files, mfs[j].new_path, mfs[j].old_path)
             ELSE renamed_files)

\* the loop with the renames of a commit recorded before its records are yielded
RECURSIVE LabelCommitsRenameFirst(_, _, _, _)
LabelCommitsRenameFirst(cs, k, renamed_files, out) ==
    IF k > Len(cs) THEN out
    ELSE LabelCommitsRenameFirst(cs, k + 1,
             LabelRenames(cs[k].modified_files, 1, renamed_files),
             LabelFiles(cs[k], 1, LabelRenames(cs[k].modified_files, 1, renamed_files), out))

\* the loop over the traversed commits, newest first
RECURSIVE LabelCommits(_, _, _, _)
LabelCommits(cs, k, renamed_files, out) ==
    IF k > Len(cs) THEN out
    ELSE LabelCommits(cs, k + 1,
             LabelRenames(cs[k].modified_files, 1, renamed_files),
             LabelFiles(cs[k], 1, renamed_files, out))

\* the commits label traverses, newest first: up to the last fixing commit
\* and only to the oldest fixing commit
LabelTraversalToOldestFix(sorted) ==
    Reverse(CommitRange(sorted[Len(sorted)], sorted[1]))

\* the commits label traverses, newest first: from the last fixing commit
\* down to the first commit of the branch
LabelTraversal(sorted) ==
    Reverse(CommitRange(sorted[Len(sorted)], commit_hashes[1]))

\* label(), consumed to its end
NothingToLabelWithoutCommits == fixing_commits = <<>>

\* the guard of label: one of the two lists is empty
NothingToLabel == fixing_commits = <<>> \/ fixed_files = <<>>

Label ==
    LET sorted == sort_commits(fixing_commits)
        known == \A k \in 1..Len(fixed_files) :
                     /\ InSeq(fixed_files[k].fic, commit_hashes)
                     /\ InSeq(fixed_files[k].bic, commit_hashes)
    IN /\ last_call' = "label"
       /\ IF NothingToLabel
          THEN /\ returned' = <<>>
               /\ raised' = "None"
               /\ steps' = <<>>
               /\ UNCHANGED fixing_commits
          ELSE IF sorted = <<>>
          THEN /\ returned' = <<>>
               /\ raised' = "IndexError"
               /\ steps' = <<>>
               /\ fixing_commits' = sorted
          ELSE IF ~known
          THEN /\ returned' = <<>>
               /\ raised' = "ValueError"
               /\ steps' = <<>>
               /\ fixing_commits' = sorted
          ELSE /\ returned' =
                      LabelCommits(LabelTraversal(sorted), 1, NoRenames, <<>>)
               /\ raised' = "None"
               /\ steps' = [n \in 1..Len(LabelTraversal(sorted)) |->
                                [commit |-> LabelTraversal(sorted)[n].hash]]
               /\ fixing_commits' = sorted
       /\ UNCHANGED <<miner, repo, commit_hashes, fixed_files, blame, classified,
                      blame_calls>>

(***************************************************************************)
(* The resolution specification: a BaseMiner on a history of one-file      *)
(* commits (NumCommits commits over two paths, or ChainCommits commits     *)
(* over three), seeded by the caller with any set of its commits, resolves *)
(* the fixed files and labels the failure-prone files.                     *)
(***************************************************************************)
Init ==
    Constructed({BaseMinerKind},
                Repositories(PyPaths, {FALSE}, 1, NumCommits, {PlainMsg})
                \cup Repositories(AllPaths, {FALSE}, 1, ChainCommits, {PlainMsg}))

AssignBranchCommits ==
    \E S \in {T \in SUBSET {commit_hashes[i] : i \in 1..Len(commit_hashes)} :
                 Cardinality(T) <= MaxFixing} :
        AssignFixingCommits(sort_commits(ListOf(S)))

ResolveInBranch == GetFixedFiles({})

Next == AssignBranchCommits \/ ResolveInBranch \/ Label

Spec == Init /\ [][Next]_vars

(***************************************************************************)
(* Properties of the resolution specification                              *)
(***************************************************************************)
Resolved == last_call = "get_fixed_files" /\ raised = "None" /\ fixing_commits # <<>>

Labeled == last_call = "label" /\ raised = "None"

Min(S) == CHOOSE x \in S : \A y \in S : x <= y

\* the oldest commit of the branch in the answer blame gave for file j of commit h
OldestBlamed(h, j) == commit_hashes[Min({Position(g) : g \in blame[<<h, j>>]})]

\* the commits of the window [bic, fic) of a fixed file
Window(f) == {commit_hashes[i] : i \in Position(f.bic)..(Position(f.fic) - 1)}

\* C1: after get_fixed_files, the bug-introducing commit of every fixed file
\* is not chronologically after its fixing commit.
C1_BicNotAfterFic ==
    Resolved =>
        \A k \in 1..Len(fixed_files) :
            Position(fixed_files[k].bic) <= Position(fixed_files[k].fic)

\* C1 witness: a fixed file whose bic was moved in place to a commit older
\* than every commit blame named for its own fixing commit.
C1_Witness ==
    /\ Resolved
    /\ \E k \in 1..Len(fixed_files) :
           \E key \in blame_calls :
               /\ key[1] = fixed_files[k].fic
               /\ blame[key] # {}
               /\ Position(fixed_files[k].bic) < Position(OldestBlamed(key[1], key[2]))

\* the records of a label() output for commit c and fixing commit fic
RecordsFor(out, c, fic) ==
    {n \in 1..Len(out) : out[n].commit = c /\ out[n].fixing_commit = fic}

\* C2: label() yields, for every fixed file, exactly one record with its fic
\* for each commit of its window [bic, fic) and none for any other commit.
C2_WindowLabeled ==
    (Labeled /\ fixing_commits # <<>>) =>
        \A i \in 1..Len(commit_hashes), j \in 1..Len(commit_hashes) :
            LET c == commit_hashes[i]
                fic == commit_hashes[j]
            IN Cardinality(RecordsFor(returned, c, fic))
               = Cardinality({k \in 1..Len(fixed_files) :
                                 fixed_files[k].fic = fic /\ c \in Window(fixed_files[k])})

\* C2 witness: a labeled window that starts before the oldest fixing commit.
C2_Witness ==
    /\ Labeled
    /\ \E k \in 1..Len(fixed_files) :
           /\ Position(fixed_files[k].bic) < Position(fixing_commits[1])
           /\ RecordsFor(returned, fixed_files[k].bic, fixed_files[k].fic) # {}

\* C3: after get_fixed_files, two distinct fixed files with the same
\* filepath have windows [bic, fic) with no commit in common.
C3_NoOverlap ==
    Resolved =>
        \A k \in 1..Len(fixed_files), m \in 1..Len(fixed_files) :
            (k # m /\ fixed_files[k].filepath = fixed_files[m].filepath)
                => Window(fixed_files[k]) \cap Window(fixed_files[m]) = {}

\* the index of the only file of commit h that is a MODIFY of path, or 0
ModifyOf(h, path) ==
    LET mfs == repo[Position(h)].modified_files
        hits == {j \in 1..Len(mfs) : mfs[j].change_type = MODIFY /\ mfs[j].new_path = path}
    IN IF hits = {} THEN 0 ELSE CHOOSE j \in hits : TRUE

\* two fixing commits, older and newer, both modify path, blame answered for
\* both, and the older one is older than the bic of the newer one
DisjointFixes(older, newer, path) ==
    /\ fixing_commits = <<older, newer>>
    /\ ModifyOf(older, path) # 0
    /\ ModifyOf(newer, path) # 0
    /\ <<older, ModifyOf(older, path)>> \in blame_calls
    /\ <<newer, ModifyOf(newer, path)>> \in blame_calls
    /\ blame[<<older, ModifyOf(older, path)>>] # {}
    /\ blame[<<newer, ModifyOf(newer, path)>>] # {}
    /\ Position(older) < Position(OldestBlamed(newer, ModifyOf(newer, path)))

\* the two fixed files the disjoint fixes of path should give
NewerFix(older, newer, path) ==
    FixedFile(path, OldestBlamed(newer, ModifyOf(newer, path)), newer)

OlderFix(older, newer, path) ==
    FixedFile(path, OldestBlamed(older, ModifyOf(older, path)), older)

\* C4 as stated: two fixing commits that modify the same filepath with
\* disjoint windows give two fixed files for that filepath, each with its
\* own bic and fic.
C4_DisjointFixesKept ==
    Resolved =>
        \A older \in BranchCommits, newer \in BranchCommits, path \in AllPaths :
            DisjointFixes(older, newer, path) =>
                \E k \in 1..Len(fixed_files), m \in 1..Len(fixed_files) :
                    /\ fixed_files[k] = NewerFix(older, newer, path)
                    /\ fixed_files[m] = OlderFix(older, newer, path)

\* a commit between the two renames path to another name
RenamedBetween(older, newer, path) ==
    \E i \in (Position(older) + 1)..(Position(newer) - 1) :
        \E j \in 1..Len(repo[i].modified_files) :
            /\ repo[i].modified_files[j].change_type = RENAME
            /\ repo[i].modified_files[j].old_path = path

\* C4 amended: the same when no commit between the two fixes renames the
\* filepath; and no third fixed file has that filepath.
C4_DisjointFixesKeptUnlessRenamed ==
    Resolved =>
        \A older \in BranchCommits, newer \in BranchCommits, path \in AllPaths :
            (DisjointFixes(older, newer, path) /\ ~RenamedBetween(older, newer, path)) =>
                \E k \in 1..Len(fixed_files), m \in 1..Len(fixed_files) :
                    /\ fixed_files[k] = NewerFix(older, newer, path)
                    /\ fixed_files[m] = OlderFix(older, newer, path)
                    /\ \A n \in 1..Len(fixed_files) :
                           fixed_files[n].filepath = path => n \in {k, m}

\* C4 witness: two disjoint fixes of one filepath, not renamed in between,
\* have been resolved.
C4_Witness ==
    /\ Resolved
    /\ \E older \in BranchCommits, newer \in BranchCommits, path \in AllPaths :
           DisjointFixes(older, newer, path) /\ ~RenamedBetween(older, newer, path)

\* the position of the newest fixing commit, where label starts
Top == Position(fixing_commits[Len(fixing_commits)])

\* the pairs <<k, i>> of a fixed file and the position of a commit of its
\* window, in the order label yields their records
Sources ==
    LET L == Len(fixed_files)
        pairs == [n \in 1..(Top * L) |-> <<((n - 1) % L) + 1, Top - ((n - 1) \div L)>>]
    IN SelectSeq(pairs, LAMBDA pr : commit_hashes[pr[2]] \in Window(fixed_files[pr[1]]))

\* the RENAME changes of the commit at position i
RenamesAt(i) ==
    {repo[i].modified_files[j] : j \in
        {n \in 1..Len(repo[i].modified_files) :
            repo[i].modified_files[n].change_type = RENAME}}

\* the commit at position C renames a to b, the fixed file k tracks b over
\* a window that starts before C and ends after it, and no other commit up
\* to the newest fixing commit renames a file from or to a or b
RenamedOnce(k, C, a, b) ==
    /\ \E mf \in RenamesAt(C) : mf.old_path = a /\ mf.new_path = b
    /\ fixed_files[k].filepath = b
    /\ Position(fixed_files[k].bic) < C
    /\ C < Position(fixed_files[k].fic)
    /\ \A i \in 1..Top : \A mf \in RenamesAt(i) :
           i # C => {mf.old_path, mf.new_path} \cap {a, b} = {}

\* C5: for a file renamed from a to b at commit C inside the window of a
\* fixed file that tracks b, label() yields a for the window commits older
\* than C and b for C and the newer ones.
C5_RenamePropagated ==
    (Labeled /\ fixing_commits # <<>> /\ fixed_files # <<>>) =>
        /\ Len(returned) = Len(Sources)
        /\ \A n \in 1..Len(Sources) : \A C \in 1..Top, a \in AllPaths, b \in AllPaths :
               RenamedOnce(Sources[n][1], C, a, b) =>
                   returned[n].filepath = IF Sources[n][2] < C THEN a ELSE b

\* C5 witness: such a fixed file has been labeled on both sides of the rename.
C5_Witness ==
    /\ Labeled /\ fixing_commits # <<>> /\ fixed_files # <<>>
    /\ \E n \in 1..Len(Sources), m \in 1..Len(Sources) :
           \E C \in 1..Top, a \in AllPaths, b \in AllPaths :
               /\ Sources[n][1] = Sources[m][1]
               /\ RenamedOnce(Sources[n][1], C, a, b)
               /\ Sources[n][2] < C
               /\ Sources[m][2] = C

\* the name at position `to` of the file called `name` at position `from`
RECURSIVE NameAt(_, _, _)
NameAt(name, from, to) ==
    IF from <= to THEN name
    ELSE LET back == {mf \in RenamesAt(from) : mf.new_path = name}
         IN NameAt(IF back = {} THEN name ELSE (CHOOSE mf \in back : TRUE).old_path,
                   from - 1, to)

\* every rename up to the newest fixing commit is inside the window of fixed
\* file k: after its bic and before its fic
RenamesInsideWindow(k) ==
    \A i \in 1..Top :
        RenamesAt(i) # {} =>
            Position(fixed_files[k].bic) < i /\ i < Position(fixed_files[k].fic)

\* C6: for a file renamed any number of times inside the window of a fixed
\* file, every record label() yields carries the path the file had at the
\* record's commit.
C6_RenameChainPropagated ==
    (Labeled /\ fixing_commits # <<>> /\ fixed_files # <<>>) =>
        /\ Len(returned) = Len(Sources)
        /\ \A n \in 1..Len(Sources) :
               RenamesInsideWindow(Sources[n][1]) =>
                   returned[n].filepath =
                       NameAt(fixed_files[Sources[n][1]].filepath,
                              Position(fixed_files[Sources[n][1]].fic), Sources[n][2])

(***************************************************************************)
(* Properties of the selection specification                               *)
(***************************************************************************)
Selected == last_call = "get_fixing_commits"

Elems(l) == {l[i] : i \in 1..Len(l)}

\* the commits the last get_fixing_commits found a label for
Candidates == {h \in classified : LabelsOf(repo[Position(h)]) # <<>>}

\* the candidates the last get_fixing_commits kept
Kept == {h \in Candidates : h \in DOMAIN returned /\ InSeq(h, fixing_commits)}

\* some modified file of the commit is a MODIFY that ignore_file accepts
HasRelevantModify(commit) ==
    \E j \in 1..Len(commit.modified_files) :
        /\ commit.modified_files[j].change_type = MODIFY
        /\ ~ignore_file(commit.modified_files[j].new_path, None)

\* C7: BaseMiner.discard_undesired_fixing_commits removes a candidate if and
\* only if none of its modified files is a MODIFY that ignore_file accepts.
C7_BaseDiscardsIrrelevant ==
    (Selected /\ miner = BaseMinerKind) =>
        \A h \in Candidates : h \in Kept <=> HasRelevantModify(repo[Position(h)])

\* C7 witness: a BaseMiner kept a candidate whose first modified file is no
\* MODIFY and removed another candidate.
C7_Witness ==
    /\ Selected /\ miner = BaseMinerKind
    /\ \E h \in Kept : repo[Position(h)].modified_files[1].change_type # MODIFY
    /\ Candidates \ Kept # {}

\* some modified file of the commit is a MODIFY of a .py file
HasPyModify(commit) ==
    \E j \in 1..Len(commit.modified_files) :
        /\ commit.modified_files[j].change_type = MODIFY
        /\ EndsWithPy(commit.modified_files[j].new_path)

\* C8: PythonMiner.discard_undesired_fixing_commits keeps every candidate
\* with a MODIFY of a .py file and removes a candidate only when it has none.
C8_PythonDiscardsIrrelevant ==
    (Selected /\ miner = PythonMinerKind) =>
        \A h \in Candidates : h \in Kept <=> HasPyModify(repo[Position(h)])

\* no hash twice, and the commits of the branch in chronological order
Ascending(l) ==
    \A i \in 1..Len(l), j \in 1..Len(l) :
        i < j => /\ l[i] # l[j]
                 /\ (l[i] \in BranchCommits /\ l[j] \in BranchCommits)
                        => Position(l[i]) < Position(l[j])

\* the candidates the relevance filter removes, were get_fixing_commits called now
Discarded ==
    IF Scan.commits = <<>> THEN {}
    ELSE Elems(Scan.commits) \ Elems(discard_undesired_fixing_commits(Scan.commits))

\* the keys of the returned mapping are the hashes the call added, and no
\* discarded commit is in the mapping or in fixing_commits
MappingIsAdded ==
    /\ DOMAIN returned' = Elems(fixing_commits') \ Elems(fixing_commits)
    /\ Discarded \cap (DOMAIN returned' \cup Elems(fixing_commits')) = {}

\* C9 as stated: after get_fixing_commits, fixing_commits is ascending
\* without duplicates, the keys of the mapping are the hashes added, and no
\* discarded commit is in either.
C9_SortedAndMapped ==
    [][last_call' = "get_fixing_commits" => (Ascending(fixing_commits') /\ MappingIsAdded)]_vars

\* C9 amended: fixing_commits is ascending without duplicates after a call
\* that found a label for a commit not yet in it, or that began with such a
\* list; the rest as stated.
C9_SortedWhenFoundAndMapped ==
    [][last_call' = "get_fixing_commits" =>
           /\ (Scan.commits # <<>> \/ Ascending(fixing_commits)) => Ascending(fixing_commits')
           /\ MappingIsAdded]_vars

\* C9 witness: a call put a new commit before one the caller had assigned
\* and discarded a candidate.
C9_Witness ==
    /\ Selected
    /\ Candidates \ Kept # {}
    /\ \E i \in 1..Len(fixing_commits), j \in 1..Len(fixing_commits) :
           /\ i < j
           /\ fixing_commits[i] \in DOMAIN returned
           /\ fixing_commits[j] \notin DOMAIN returned

\* what C10 says of the hash h, in fixing_commits when the call begins
LeftAlone(h) ==
    /\ h \notin classified'
    /\ h \notin DOMAIN returned'
    /\ h \notin Discarded
    /\ InSeq(h, fixing_commits')

\* C10 as stated: a commit in fixing_commits when get_fixing_commits is
\* called is not classified, not in the mapping, not removed by the filter,
\* and still in fixing_commits after the call.
C10_KnownLeftAlone ==
    [][last_call' = "get_fixing_commits" =>
           \A h \in Elems(fixing_commits) : LeftAlone(h)]_vars

\* C10 amended: the same of every commit of the branch in fixing_commits.
C10_KnownBranchCommitLeftAlone ==
    [][last_call' = "get_fixing_commits" =>
           \A h \in Elems(fixing_commits) \cap BranchCommits : LeftAlone(h)]_vars

\* C10 witness: a call that added commits left alone a commit the caller
\* had assigned, whose message has a label.
C10_Witness ==
    /\ Selected
    /\ DOMAIN returned # {}
    /\ \E h \in Elems(fixing_commits) \cap BranchCommits :
           /\ h \notin classified
           /\ LabelsOf(repo[Position(h)]) # <<>>


(***************************************************************************)
(* The session specification: the caller of a miner of either class on a   *)
(* short history assigns fixing_commits whenever it likes (any short list, *)
(* the empty one included), sorts it, resolves and labels in any order.    *)
(***************************************************************************)
SessionCommits == 3

\* miner.fixing_commits = known, at any moment of the session
ReassignFixingCommits(known) ==
    /\ fixing_commits' = known
    /\ last_call' = "assign"
    /\ UNCHANGED <<miner, repo, commit_hashes, fixed_files, blame, returned,
                   classified, blame_calls, raised, steps>>

ReassignAnyList ==
    \E known \in ListsUpTo({commit_hashes[i] : i \in 1..Len(commit_hashes)}
                           \cup {ForeignHash}, MaxKnown) :
        ReassignFixingCommits(known)

\* miner.sort_commits(miner.fixing_commits); steps keeps the list as passed
SortCommits ==
    /\ fixing_commits' = sort_commits(fixing_commits)
    /\ last_call' = "sort_commits"
    /\ returned' = <<>>
    /\ raised' = "None"
    /\ steps' = <<[argument |-> fixing_commits]>>
    /\ UNCHANGED <<miner, repo, commit_hashes, fixed_files, blame, classified,
                   blame_calls>>

InitSession ==
    Constructed({BaseMinerKind, PythonMinerKind},
                Repositories(FewPaths, {FALSE}, 1, SessionCommits, {PlainMsg}))

NextSession == ReassignAnyList \/ SortCommits \/ ResolveInBranch \/ Label

SpecSession == InitSession /\ [][NextSession]_vars

(***************************************************************************)
(* Properties of the session specification                                 *)
(***************************************************************************)

\* C11: after any sequence of operations, a get_fixed_files call made while
\* fixing_commits is empty leaves an empty fixed_files and asks blame nothing
C11_EmptyResolveYieldsEmpty ==
    (last_call = "get_fixed_files" /\ raised = "None" /\ fixing_commits = <<>>)
        => (fixed_files = <<>> /\ blame_calls = {})

\* C12: label called while fixing_commits is empty or fixed_files is empty
\* yields nothing, raises nothing and traverses no commit
C12_LabelNeedsBothLists ==
    [][(last_call' = "label" /\ (fixing_commits = <<>> \/ fixed_files = <<>>))
           => (returned' = <<>> /\ raised' = "None" /\ steps' = <<>>)]_vars

\* label has returned at once on a miner with fixing commits and no fixed file
C12_Witness ==
    /\ last_call = "label"
    /\ fixing_commits # <<>>
    /\ fixed_files = <<>>
    /\ returned = <<>>
    /\ steps = <<>>

\* C13: sort_commits filters and reorders: the result holds exactly the hashes
\* of the input that occur in commit_hashes, each once, in commit_hashes
\* order, and sorting the result again leaves it unchanged
C13_SortFiltersAndReorders ==
    [][(last_call' = "sort_commits")
           => /\ Elems(fixing_commits') = Elems(fixing_commits) \cap Elems(commit_hashes)
              /\ \A i, k \in 1..Len(fixing_commits') :
                     i < k => Position(fixing_commits'[i]) < Position(fixing_commits'[k])
              /\ (last_call = "sort_commits" => fixing_commits' = fixing_commits)]_vars

\* a sort has put two hashes that were passed newest first in history order
C13_Witness ==
    /\ last_call = "sort_commits"
    /\ Len(steps[1].argument) = 2
    /\ Position(steps[1].argument[1]) > Position(steps[1].argument[2])
    /\ fixing_commits = <<steps[1].argument[2], steps[1].argument[1]>>

(***************************************************************************)
(* Further properties of the resolution specification                      *)
(***************************************************************************)

\* the history [c1 adds f, c2 modifies f, c3 modifies f, later commits leave f
\* alone] with c3 the only fixing commit and blame answering {c2} for it
OneFixScenario(f) ==
    /\ Len(repo) >= 4
    /\ repo[1].modified_files = <<ModifiedFile(ADD, None, f, FALSE)>>
    /\ repo[2].modified_files = <<ModifiedFile(MODIFY, f, f, FALSE)>>
    /\ repo[3].modified_files = <<ModifiedFile(MODIFY, f, f, FALSE)>>
    /\ \A i \in 4..Len(repo) : \A j \in 1..Len(repo[i].modified_files) :
           /\ repo[i].modified_files[j].old_path # f
           /\ repo[i].modified_files[j].new_path # f
    /\ fixing_commits = <<commit_hashes[3]>>
    /\ <<commit_hashes[3], 1>> \in DOMAIN blame
    /\ blame[<<commit_hashes[3], 1>>] = {commit_hashes[2]}

\* C14: on that history get_fixed_files yields exactly FixedFile(f, c2, c3)
\* and label yields exactly FailureProneFile(f, c2, c3)
C14_OneFixOneRecord ==
    \A f \in AllPaths :
        OneFixScenario(f) =>
            /\ Resolved =>
                   fixed_files = <<[filepath |-> f, bic |-> commit_hashes[2],
                                    fic |-> commit_hashes[3]]>>
            /\ Labeled =>
                   returned = <<[filepath |-> f, commit |-> commit_hashes[2],
                                 fixing_commit |-> commit_hashes[3]]>>

\* label has run on that history after get_fixed_files
C14_Witness ==
    /\ Labeled
    /\ Len(returned) = 1
    /\ \E f \in AllPaths : OneFixScenario(f)

\* the names a path goes through from the commit at position from up to the
\* commit at position to, following the renames in chronological order
RECURSIVE NameChain(_, _, _)
NameChain(names, from, to) ==
    IF from > to THEN names
    ELSE LET name == names[Len(names)]
             onward == {mf \in RenamesAt(from) : mf.old_path = name}
         IN NameChain(IF onward = {} THEN names
                      ELSE Append(names, (CHOOSE mf \in onward : TRUE).new_path),
                      from + 1, to)

\* the steps of the last get_fixed_files that appended a FixedFile for a
\* filepath fixed_files did not hold yet
Created == {n \in 1..Len(steps) : steps[n].kind = "create"}

\* the names of the file of step n from its commit to the newest fixing commit
ChainOf(n) ==
    NameChain(<<repo[Position(steps[n].commit)].modified_files[steps[n].file].new_path>>,
              Position(steps[n].commit) + 1, Top)

\* C16: a FixedFile created for a file that commits of the span newer than
\* its fixing commit rename one or more times is filed under the last name
\* of that chain of renames
C16_FiledUnderLatestName ==
    Resolved =>
        \A n \in Created :
            Len(ChainOf(n)) > 1 =>
                /\ steps[n].candidate.filepath = ChainOf(n)[Len(ChainOf(n))]
                /\ steps[n].fixed_files[Len(steps[n].fixed_files)].filepath
                       = ChainOf(n)[Len(ChainOf(n))]

\* a FixedFile was created under the third name of a file renamed twice
C16_Witness ==
    /\ Resolved
    /\ \E n \in Created :
           /\ Len(ChainOf(n)) = 3
           /\ ChainOf(n)[3] # ChainOf(n)[1]
           /\ steps[n].candidate.filepath = ChainOf(n)[3]

\* fixed_files and the rename map as step n of the last get_fixed_files
\* found them
FixedBefore(n) == IF n = 1 THEN <<>> ELSE steps[n - 1].fixed_files

RenamedBefore(n) == IF n = 1 THEN NoRenames ELSE steps[n - 1].renamed_files

\* C17: during one get_fixed_files pass a FixedFile once appended is never
\* removed, keeps its fic, and its bic only moves to an older commit
C17_EntriesOnlyGrowOlder ==
    (last_call = "get_fixed_files" /\ raised = "None") =>
        /\ \A n \in 1..Len(steps) :
               /\ Len(steps[n].fixed_files) >= Len(FixedBefore(n))
               /\ \A k \in 1..Len(FixedBefore(n)) :
                      /\ steps[n].fixed_files[k].filepath = FixedBefore(n)[k].filepath
                      /\ steps[n].fixed_files[k].fic = FixedBefore(n)[k].fic
                      /\ Position(steps[n].fixed_files[k].bic)
                             <= Position(FixedBefore(n)[k].bic)
        /\ steps # <<>> => fixed_files = steps[Len(steps)].fixed_files

\* a pass has moved the bic of an entry to an older commit and then gone on
C17_Witness ==
    /\ Resolved
    /\ \E n \in 1..Len(steps) : \E k \in 1..Len(FixedBefore(n)) :
           /\ n < Len(steps)
           /\ steps[n].kind = "update"
           /\ Position(steps[n].fixed_files[k].bic) < Position(FixedBefore(n)[k].bic)

\* the steps of the last get_fixed_files whose candidate met an entry of
\* its filepath
Compared == {n \in 1..Len(steps) : steps[n].idx # 0}

\* the entry the candidate of step n was compared with
ExistingAt(n) == FixedBefore(n)[steps[n].idx]

\* C18: a candidate whose fic is not older than the bic of the entry of its
\* filepath and whose bic is not older than that bic either (equal or newer)
\* leaves fixed_files and the rename map as they were
C18_TieChangesNothing ==
    (last_call = "get_fixed_files" /\ raised = "None") =>
        \A n \in Compared :
            (/\ Position(steps[n].candidate.fic) >= Position(ExistingAt(n).bic)
             /\ Position(steps[n].candidate.bic) >= Position(ExistingAt(n).bic))
                => /\ steps[n].fixed_files = FixedBefore(n)
                   /\ steps[n].renamed_files = steps[n].tracked

\* a candidate with the bic of the entry of its filepath was dropped
C18_Witness ==
    /\ Resolved
    /\ \E n \in Compared :
           /\ steps[n].candidate.bic = ExistingAt(n).bic
           /\ Position(steps[n].candidate.fic) > Position(ExistingAt(n).bic)
           /\ steps[n].fixed_files = FixedBefore(n)

\* the steps of the last get_fixed_files that kept a candidate apart from the
\* entry of its filepath
Split == {n \in Compared : steps[n].kind = "new"}

\* the path the file of step n has at the commit of the step
PathAt(n) == repo[Position(steps[n].commit)].modified_files[steps[n].file].new_path

\* the file of the later step m goes by the path of step n, or by an older
\* name of it, at the commit of step m
OnPathOf(m, n) ==
    LET chain == NameChain(<<PathAt(m)>>, Position(steps[m].commit) + 1,
                           Position(steps[n].commit))
    IN chain[Len(chain)] = PathAt(n)

\* C19: a candidate kept apart because its fic is older than the entry's bic
\* is filed under the path of its file at its fixing commit, the rename
\* mapping of that path is removed, and every later candidate on that path
\* or an older name of it is compared with the new entry, not the newer one
C19_SplitTakesOver ==
    (last_call = "get_fixed_files" /\ raised = "None") =>
        \A n \in Split :
            /\ Len(steps[n].fixed_files) = Len(FixedBefore(n)) + 1
            /\ steps[n].fixed_files[Len(steps[n].fixed_files)].filepath = PathAt(n)
            /\ PathAt(n) \notin DOMAIN steps[n].renamed_files
            /\ \A m \in Compared :
                   (m > n /\ OnPathOf(m, n)) => steps[m].idx # steps[n].idx

(***************************************************************************)
(* Further properties of the selection specification                       *)
(***************************************************************************)

\* C15: a get_fixing_commits call that follows a get_fixing_commits call on
\* the same history returns an empty mapping and leaves fixing_commits as
\* the first call left it
C15_SecondCallAddsNothing ==
    [][(last_call = "get_fixing_commits" /\ last_call' = "get_fixing_commits")
           => (DOMAIN returned' = {} /\ fixing_commits' = fixing_commits)]_vars

\* a call has classified and discarded again a commit an earlier call had
\* discarded, beside fixing commits that earlier call had added
C15_Witness ==
    /\ last_call = "get_fixing_commits"
    /\ DOMAIN returned = {}
    /\ fixing_commits # <<>>
    /\ Candidates # {}
    /\ \E h \in Elems(fixing_commits) :
           h \in BranchCommits /\ LabelsOf(repo[Position(h)]) # <<>>

(***************************************************************************)
(* Further properties of the session specification                         *)
(***************************************************************************)

\* the list a pass builds from nothing over the current fixing_commits with
\* the answers blame has given
Rebuilt ==
    FixCommits(FixTraversal(fixing_commits), 1,
               [fixed_files |-> <<>>, renamed_files |-> NoRenames,
                blame_calls |-> {}, raised |-> "None", steps |-> <<>>],
               blame).fixed_files

\* C22: after a get_fixed_files call on a non-empty fixing_commits,
\* fixed_files is the list a pass builds from nothing: it is settled by the
\* history, fixing_commits and the blame answers alone, whatever fixed_files
\* held before, so a second call in a row leaves the same list
C22_RebuiltFromScratch == Resolved => fixed_files = Rebuilt

\* a pass has left fixed files although an earlier pass, over a fixing
\* commit that is no longer in fixing_commits, had found other ones
C22_Witness ==
    /\ Resolved
    /\ fixed_files # <<>>
    /\ \E key \in DOMAIN blame :
           /\ ~InSeq(key[1], fixing_commits)
           /\ blame[key] # {}
           /\ \A k \in 1..Len(fixed_files) : fixed_files[k].fic # key[1]

\* the modified file a step or a blame query is about
FileOf(hash, j) == repo[Position(hash)].modified_files[j]

\* the relevance predicate of the miner's class accepts the path
Accepted(path) == miner = PythonMinerKind => EndsWithPy(path)

\* the steps of the last get_fixed_files on a RENAME of a commit that is not
\* a fixing commit
ForeignRenames ==
    {n \in 1..Len(steps) :
        /\ ~InSeq(steps[n].commit, fixing_commits)
        /\ FileOf(steps[n].commit, steps[n].file).change_type = RENAME}

\* C20: get_fixed_files asks blame only about a MODIFY or RENAME file of a
\* fixing commit that the relevance predicate accepts; a rename in a commit
\* that is not a fixing commit updates the rename map, asks blame nothing
\* and creates no FixedFile
C20_BlameOnlyForRelevantFixes ==
    last_call = "get_fixed_files" =>
        /\ \A key \in blame_calls :
               /\ InSeq(key[1], fixing_commits)
               /\ FileOf(key[1], key[2]).change_type \in {MODIFY, RENAME}
               /\ Accepted(FileOf(key[1], key[2]).new_path)
        /\ \A n \in ForeignRenames :
               LET mf == FileOf(steps[n].commit, steps[n].file)
               IN /\ mf.old_path \in DOMAIN steps[n].renamed_files
                  /\ steps[n].renamed_files[mf.old_path]
                         = GetOr(RenamedBefore(n), mf.new_path)
                  /\ <<steps[n].commit, steps[n].file>> \notin blame_calls
                  /\ steps[n].fixed_files = FixedBefore(n)

\* a PythonMiner pass has met a rename in a commit that is not a fixing
\* commit and has asked blame about a file of a fixing commit
C20_Witness ==
    /\ last_call = "get_fixed_files"
    /\ miner = PythonMinerKind
    /\ ForeignRenames # {}
    /\ blame_calls # {}


(***************************************************************************)
(* The classification specification: a BaseMiner on a short history of    *)
(* one-file commits, whose MODIFY changes may touch a comment              *)
(* line and whose messages combine the defect pattern and the topic        *)
(* patterns in every way, selects fixing commits.                          *)
(***************************************************************************)
ClassifyCommits == 3

\* messages: no sentence; a defect with no topic; a defect in one sentence
\* and a topic in another; a defect on two topics; a topic with no defect
EmptyMsg == <<>>

BareFixMsg == <<Sentence(TRUE, {})>>

SplitMsg == <<Sentence(TRUE, {}), Sentence(FALSE, {"SERVICE"})>>

TwoTopicsMsg == <<Sentence(TRUE, {"DOCUMENTATION", "DEPENDENCY"})>>

DocTopicMsg == <<Sentence(FALSE, {"DOCUMENTATION", "CONFIGURATION_DATA"})>>

ClassifyMsgs == {EmptyMsg, BareFixMsg, SplitMsg, TwoTopicsMsg, DocTopicMsg, FixMsg}

InitClassify ==
    Constructed({BaseMinerKind},
                Repositories(FewPaths, {FALSE, TRUE}, 1, ClassifyCommits, ClassifyMsgs))

NextClassify == AssignAnyList \/ GetFixingCommits

SpecClassify == InitClassify /\ [][NextClassify]_vars

(***************************************************************************)
(* Properties of the classification specification                          *)
(***************************************************************************)

\* the structural hook of a label fires on the commit: a comment line changed
\* in a MODIFY for DOCUMENTATION, never for the other labels
HookFires(commit, label) ==
    /\ label = "DOCUMENTATION"
    /\ \E j \in 1..Len(commit.modified_files) :
           /\ commit.modified_files[j].change_type = MODIFY
           /\ commit.modified_files[j].comment

\* some sentence matches the defect pattern and either its dependency phrase
\* matches the label's topic pattern or the label's hook fires
Deserves(commit, label) ==
    \E i \in 1..Len(commit.msg) :
        /\ commit.msg[i].defect
        /\ (label \in commit.msg[i].topics \/ HookFires(commit, label))

\* C21: a commit get_fixing_commits returns carries label L if and only if
\* some sentence of its message matches the defect pattern and that
\* sentence's topics hold L or L's hook fires; a commit with no defect
\* sentence is never returned, whatever its diff
C21_LabelIffDefectAndTopicOrHook ==
    Selected =>
        /\ \A h \in DOMAIN returned : \A l \in Elems(LabelOrder) :
               InSeq(l, returned[h]) <=> Deserves(repo[Position(h)], l)
        /\ \A h \in classified :
               (\A i \in 1..Len(repo[Position(h)].msg) : ~repo[Position(h)].msg[i].defect)
                   => h \notin DOMAIN returned

\* a commit with a changed comment line and a defect sentence without the
\* documentation topic was labeled DOCUMENTATION, and a commit with a changed
\* comment line and no defect sentence was classified and not returned
C21_Witness ==
    /\ Selected
    /\ \E h \in DOMAIN returned :
           /\ InSeq("DOCUMENTATION", returned[h])
           /\ \A i \in 1..Len(repo[Position(h)].msg) :
                  "DOCUMENTATION" \notin repo[Position(h)].msg[i].topics
    /\ \E h \in classified :
           /\ h \notin DOMAIN returned
           /\ HookFires(repo[Position(h)], "DOCUMENTATION")


(***************************************************************************)
(* The foreign-blame specification: a BaseMiner on a history of one-file   *)
(* commits, whose caller assigns any short list of hashes whenever it      *)
(* likes, resolves the fixed files with a blame collaborator that may also *)
(* name a commit that is not in the branch.                                *)
(***************************************************************************)
BlameCommits == 3

InitBlame ==
    Constructed({BaseMinerKind},
                Repositories(PyPaths, {FALSE}, 1, BlameCommits, {PlainMsg}))

ResolveAnyBlame == GetFixedFiles({ForeignHash})

NextBlame == ReassignAnyList \/ ResolveAnyBlame

SpecBlame == InitBlame /\ [][NextBlame]_vars

\* the fic of every FixedFile is in fixing_commits and its bic and fic are
\* hashes of commit_hashes
HashesKnown ==
    \A k \in 1..Len(fixed_files) :
        /\ InSeq(fixed_files[k].fic, fixing_commits)
        /\ InSeq(fixed_files[k].fic, commit_hashes)
        /\ InSeq(fixed_files[k].bic, commit_hashes)

\* C23: whenever get_fixed_files completes, the fic of every FixedFile is in
\* fixing_commits and its bic and fic are hashes of commit_hashes, also when
\* blame has named hashes that the branch does not hold
C23_HashesOfTheBranch ==
    (last_call = "get_fixed_files" /\ raised = "None") => HashesKnown

\* C23 for the calls that rebuild the list, those on a non-empty
\* fixing_commits: the same, also when blame has named hashes that the branch
\* does not hold
C23_HashesOfTheBranchWhenRebuilt ==
    (last_call = "get_fixed_files" /\ raised = "None" /\ fixing_commits # <<>>)
        => HashesKnown

====
